---------------------------- MODULE Spec2Model ----------------------------
(***************************************************************************)
(* Model of shipyard's controller API gateway (controller/api/api.go):     *)
(*   - the top-level mux, the auth/access middleware chains and the swarm  *)
(*     route table built by Api.Run;                                       *)
(*   - the reverse-proxy handler swarmRedirect;                            *)
(*   - the terminal bridge Api.execContainer and the hijack engine         *)
(*     Api.hijack with its two copy goroutines.                            *)
(*                                                                         *)
(* A URL path is a sequence of segments: "/containers/abc123/start" is     *)
(* <<"containers","abc123","start">>, "/v1.17/" is <<"v1.17","">>, "/" is  *)
(* <<"">> and the empty string is <<>>.  In a route pattern "*" stands for *)
(* a {name:.*} variable and "+" for a plain {name} variable.               *)
(***************************************************************************)
EXTENDS Integers, Sequences, FiniteSets, TLC

VARIABLES
    enableCors,     \* Api.enableCors
    tlsConfig,      \* a.manager.DockerClient().TLSConfig != nil
    urlScheme,      \* a.manager.DockerClient().URL.Scheme
    hostParses,     \* whether url.ParseRequestURI accepts scheme + URL.Host
    served,         \* the last request the server dispatched, with its outcome
    err,            \* the variable err of Api.Run that swarmRedirect captures
    errWriter,      \* the goroutine whose assignment err holds, 0 before any
    fwd,            \* the requests inside swarmRedirect, by serving goroutine
    login,          \* the request inside Api.login
    halfClose,      \* whether the build's tls.Conn has a CloseWrite method
    pc,             \* where the goroutine running execContainer/hijack stands
    execId,         \* info.Id
    createFailed,   \* the create request's answer was an error status or no session id
    hijackErr,      \* what hijack returned
    hijacked,       \* clientconn.Hijack() has handed over the socket
    handshake,      \* how clientconn.Do(req) ended
    sock,           \* the raw socket: none, open, halfClosed, closed
    closes,         \* Close() calls made on the raw socket
    keepAlive,      \* SetKeepAlive(true) and the 30 s period are set
    conns,          \* the outbound connections of the session, with their transport
    resizeSent,     \* the resize request was posted
    resizes,        \* resize requests for the session that swarmRedirect relayed
    attempts,       \* how often the session posted create, dialed, sent start
    query,          \* the id and cmd parameters of the websocket request
    createReq,      \* the create request the session posted
    startReq,       \* the start request hijack sent
    outPc, outBuf,  \* the goroutine copying br to stdout, and its chunk in hand
    inPc, inBuf,    \* the goroutine copying in to rwc, and its chunk in hand
    copyErr,        \* the error io.Copy(stdout, br) returned
    ws,             \* the client's websocket: open or closed
    remote,         \* the cluster manager's end of the socket: running or eof
    produced,       \* bytes the remote has written: 1..produced
    toClient,       \* bytes written to the websocket
    sent,           \* bytes the client has written: 1..sent
    toRemote        \* bytes written to the raw socket

routeVars == <<served>>
fwdVars == <<err, errWriter, fwd>>
cfgVars == <<enableCors, tlsConfig, urlScheme, hostParses>>
execVars == <<halfClose, pc, execId, createFailed, hijackErr, hijacked, handshake,
              sock, closes, keepAlive, conns, resizeSent, resizes, attempts,
              query, createReq, startReq, outPc, outBuf, inPc, inBuf, copyErr, ws, remote, produced,
              toClient, sent, toRemote>>

loginVars == <<login>>

vars == <<cfgVars, routeVars, fwdVars, loginVars, execVars>>

\* The state of the session variables before a session.
NoSession ==
    /\ pc = "idle"
    /\ execId = "" /\ createFailed = FALSE /\ hijackErr = "nil"
    /\ hijacked = FALSE /\ handshake = "none"
    /\ sock = "none" /\ closes = 0 /\ keepAlive = FALSE
    /\ conns = {} /\ resizeSent = FALSE /\ resizes = 0
    /\ attempts = [create |-> 0, dial |-> 0, start |-> 0]
    /\ query = [id |-> "", cmd |-> <<>>]
    /\ createReq = <<>> /\ startReq = <<>>
    /\ outPc = "none" /\ outBuf = <<>> /\ inPc = "none" /\ inBuf = <<>>
    /\ copyErr = "nil"
    /\ ws = "open" /\ remote = "running"
    /\ produced = 0 /\ toClient = <<>> /\ sent = 0 /\ toRemote = <<>>

\* No request is inside Api.login.
LoginIdle ==
    [pc |-> "idle", body |-> <<>>, creds |-> <<>>, auth |-> <<>>,
     tokenCalls |-> 0, resp |-> <<>>]

---------------------------------------------------------------------------
(* Paths and patterns *)

\* The segments "/v{version:[0-9.]+}" accepts, among the segments of the model.
VersionSegs == {"v1.17", "v1.18", "v1.19"}

IsVersionSeg(s) == s \in VersionSegs

RECURSIVE MatchPattern(_, _)
\* gorilla/mux's anchored regular expression of a path template: a literal
\* segment matches itself, {name:.*} any text (slashes and the empty text
\* included), {name} one non-empty segment.
MatchPattern(pat, path) ==
    IF pat = <<>> THEN path = <<>>
    ELSE IF path = <<>> THEN FALSE
    ELSE IF Head(pat) = "*"
         THEN \E k \in 1..Len(path) :
                  MatchPattern(Tail(pat), SubSeq(path, k + 1, Len(path)))
    ELSE IF Head(pat) = "+"
         THEN Head(path) # "" /\ MatchPattern(Tail(pat), Tail(path))
    ELSE Head(path) = Head(pat) /\ MatchPattern(Tail(pat), Tail(path))

\* "/v{version:[0-9.]+}" + route
MatchVersioned(pat, path) ==
    /\ path # <<>>
    /\ IsVersionSeg(Head(path))
    /\ MatchPattern(pat, Tail(path))

---------------------------------------------------------------------------
(* Api.Run: the routers *)

\* The map m of Api.Run: every entry is bound to swarmRedirect.
SwarmRoutes ==
    { <<"GET", <<"_ping">>>>,
      <<"GET", <<"events">>>>,
      <<"GET", <<"info">>>>,
      <<"GET", <<"version">>>>,
      <<"GET", <<"images", "json">>>>,
      <<"GET", <<"images", "viz">>>>,
      <<"GET", <<"images", "search">>>>,
      <<"GET", <<"images", "get">>>>,
      <<"GET", <<"images", "*", "get">>>>,
      <<"GET", <<"images", "*", "history">>>>,
      <<"GET", <<"images", "*", "json">>>>,
      <<"GET", <<"containers", "ps">>>>,
      <<"GET", <<"containers", "json">>>>,
      <<"GET", <<"containers", "*", "export">>>>,
      <<"GET", <<"containers", "*", "changes">>>>,
      <<"GET", <<"containers", "*", "json">>>>,
      <<"GET", <<"containers", "*", "top">>>>,
      <<"GET", <<"containers", "*", "logs">>>>,
      <<"GET", <<"containers", "*", "stats">>>>,
      <<"GET", <<"containers", "*", "attach", "ws">>>>,
      <<"GET", <<"exec", "*", "json">>>>,
      <<"POST", <<"auth">>>>,
      <<"POST", <<"commit">>>>,
      <<"POST", <<"build">>>>,
      <<"POST", <<"images", "create">>>>,
      <<"POST", <<"images", "load">>>>,
      <<"POST", <<"images", "*", "push">>>>,
      <<"POST", <<"images", "*", "tag">>>>,
      <<"POST", <<"containers", "create">>>>,
      <<"POST", <<"containers", "*", "kill">>>>,
      <<"POST", <<"containers", "*", "pause">>>>,
      <<"POST", <<"containers", "*", "unpause">>>>,
      <<"POST", <<"containers", "*", "rename">>>>,
      <<"POST", <<"containers", "*", "restart">>>>,
      <<"POST", <<"containers", "*", "start">>>>,
      <<"POST", <<"containers", "*", "stop">>>>,
      <<"POST", <<"containers", "*", "wait">>>>,
      <<"POST", <<"containers", "*", "resize">>>>,
      <<"POST", <<"containers", "*", "attach">>>>,
      <<"POST", <<"containers", "*", "copy">>>>,
      <<"POST", <<"containers", "*", "exec">>>>,
      <<"POST", <<"exec", "*", "start">>>>,
      <<"POST", <<"exec", "*", "resize">>>>,
      <<"DELETE", <<"containers", "*">>>>,
      <<"DELETE", <<"images", "*">>>>,
      <<"OPTIONS", <<>>>> }

\* apiRouter, in registration order: <<method, pattern, handler>>; the method
\* "*" is a route without Methods().
ApiRoutes ==
    << <<"GET", <<"api", "accounts">>, "accounts">>,
       <<"POST", <<"api", "accounts">>, "addAccount">>,
       <<"DELETE", <<"api", "accounts">>, "deleteAccount">>,
       <<"GET", <<"api", "roles">>, "roles">>,
       <<"GET", <<"api", "roles", "+">>, "role">>,
       <<"POST", <<"api", "roles">>, "addRole">>,
       <<"DELETE", <<"api", "roles">>, "deleteRole">>,
       <<"GET", <<"api", "nodes">>, "nodes">>,
       <<"GET", <<"api", "nodes", "+">>, "node">>,
       <<"GET", <<"api", "events">>, "events">>,
       <<"DELETE", <<"api", "events">>, "purgeEvents">>,
       <<"GET", <<"api", "registry">>, "registries">>,
       <<"POST", <<"api", "registry">>, "addRegistry">>,
       <<"GET", <<"api", "registry", "+">>, "registry">>,
       <<"DELETE", <<"api", "registry", "+">>, "removeRegistry">>,
       <<"GET", <<"api", "registry", "+", "repositories">>, "repositories">>,
       <<"GET", <<"api", "registry", "+", "repositories", "*">>, "repository">>,
       <<"DELETE", <<"api", "registry", "+", "repositories", "*">>, "deleteRepository">>,
       <<"GET", <<"api", "servicekeys">>, "serviceKeys">>,
       <<"POST", <<"api", "servicekeys">>, "addServiceKey">>,
       <<"DELETE", <<"api", "servicekeys">>, "removeServiceKey">>,
       <<"GET", <<"api", "webhookkeys">>, "webhookKeys">>,
       <<"GET", <<"api", "webhookkeys", "+">>, "webhookKey">>,
       <<"POST", <<"api", "webhookkeys">>, "addWebhookKey">>,
       <<"DELETE", <<"api", "webhookkeys", "+">>, "deleteWebhookKey">>,
       <<"*", <<"api", "exec">>, "execContainer">> >>

AccountRoutes == << <<"POST", <<"account", "changepassword">>, "changePassword">> >>

LoginRoutes == << <<"POST", <<"auth", "login">>, "login">> >>

HubRoutes == << <<"POST", <<"hub", "webhook", "+">>, "hubWebhook">> >>

\* mux.Router.ServeHTTP over a list of routes: the first route that matches
\* decides, and no match is http.NotFound.
RouterMatch(routes, method, path) ==
    LET hits == { i \in 1..Len(routes) :
                     /\ routes[i][1] \in {method, "*"}
                     /\ MatchPattern(routes[i][2], path) }
    IN IF hits = {} THEN "notFound"
       ELSE routes[CHOOSE i \in hits : \A j \in hits : i <= j][3]

\* One pass of the registration loop: the route and its version alias.  An
\* empty template is refused by Path() ("path must start with a slash"), so
\* the bare OPTIONS route never matches.
RouteMatches(pat, path) ==
    \/ MatchVersioned(pat, path)
    \/ pat # <<>> /\ MatchPattern(pat, path)

\* swarmRouter.ServeHTTP: every registered route carries the same handler,
\* so the (random) registration order of the map does not show.
SwarmRouterMatch(method, path) ==
    IF \E r \in SwarmRoutes : r[1] = method /\ RouteMatches(r[2], path)
    THEN "swarmRedirect" ELSE "notFound"

\* globalMux.Handle(pattern, handler), in the order of Api.Run.
Mounts ==
    << <<<<"">>, "static">>,
       <<<<"api", "">>, "apiAuthRouter">>,
       <<<<"account", "">>, "accountAuthRouter">>,
       <<<<"auth", "">>, "loginRouter">>,
       <<<<"hub", "">>, "hubRouter">>,
       <<<<"containers", "">>, "swarmAuthRouter">>,
       <<<<"_ping">>, "swarmAuthRouter">>,
       <<<<"commit">>, "swarmAuthRouter">>,
       <<<<"build">>, "swarmAuthRouter">>,
       <<<<"events">>, "swarmAuthRouter">>,
       <<<<"version">>, "swarmAuthRouter">>,
       <<<<"images", "">>, "swarmAuthRouter">>,
       <<<<"exec", "">>, "swarmAuthRouter">>,
       <<<<"v1.17", "">>, "swarmAuthRouter">>,
       <<<<"v1.18", "">>, "swarmAuthRouter">> >>

IsSubtree(pat) == pat[Len(pat)] = ""

SubtreeRoot(pat) == SubSeq(pat, 1, Len(pat) - 1)

\* http.ServeMux.pathMatch
PathMatch(pat, path) ==
    IF IsSubtree(pat)
    THEN /\ Len(path) >= Len(pat)
         /\ SubSeq(path, 1, Len(pat) - 1) = SubtreeRoot(pat)
    ELSE path = pat

\* http.ServeMux.handler: the longest matching pattern wins; a subtree root
\* named without its trailing slash is redirected to the subtree.
ServeMuxHandler(path) ==
    LET hits == { i \in 1..Len(Mounts) : PathMatch(Mounts[i][1], path) }
        best == CHOOSE i \in hits :
                    \A j \in hits : Len(Mounts[j][1]) <= Len(Mounts[i][1])
    IN IF \E i \in 1..Len(Mounts) : Mounts[i][1] = path
       THEN Mounts[CHOOSE i \in 1..Len(Mounts) : Mounts[i][1] = path][2]
       ELSE IF \E i \in 1..Len(Mounts) :
                  /\ IsSubtree(Mounts[i][1])
                  /\ SubtreeRoot(Mounts[i][1]) = path
            THEN "redirect"
       ELSE Mounts[best][2]

\* Mutant: swarmAuthRouter is built without the access middleware.
MiddlewareAuthOnly(h) ==
    CASE h = "apiAuthRouter" -> <<"auth", "access">>
      [] h = "accountAuthRouter" -> <<"auth">>
      [] h = "swarmAuthRouter" -> <<"auth">>
      [] OTHER -> <<>>

\* The negroni chain in front of each router.
Middleware(h) ==
    CASE h = "apiAuthRouter" -> <<"auth", "access">>
      [] h = "accountAuthRouter" -> <<"auth">>
      [] h = "swarmAuthRouter" -> <<"auth", "access">>
      [] OTHER -> <<>>

\* HandlerFuncWithNext of the auth and of the access middleware: next is
\* called only when the check passes.
GateAllows(mw, authOK, accessOK) ==
    \A i \in 1..Len(mw) : IF mw[i] = "auth" THEN authOK ELSE accessOK

\* How many middlewares of the chain ran: all of them, or up to the first
\* that denied.
GateRan(mw, authOK, accessOK) ==
    IF mw # <<>> /\ mw[1] = "auth" /\ ~authOK THEN 1 ELSE Len(mw)

\* The router behind each chain.
Routed(h, method, path) ==
    CASE h = "apiAuthRouter" -> RouterMatch(ApiRoutes, method, path)
      [] h = "accountAuthRouter" -> RouterMatch(AccountRoutes, method, path)
      [] h = "loginRouter" -> RouterMatch(LoginRoutes, method, path)
      [] h = "hubRouter" -> RouterMatch(HubRoutes, method, path)
      [] h = "swarmAuthRouter" -> SwarmRouterMatch(method, path)
      [] OTHER -> h

\* wrap: the CORS headers are written, then the route's function runs.
Wrap(handler, cors) ==
    [handler |-> handler, cors |-> (handler = "swarmRedirect" /\ cors)]

\* globalMux.ServeHTTP for one request: where it is mounted, what the gate
\* did, whether a router was consulted, which handler ran and whether the
\* CORS headers were written.
Dispatch(method, path, authOK, accessOK, cors) ==
    LET h == ServeMuxHandler(path)
        mw == Middleware(h)
        ok == GateAllows(mw, authOK, accessOK)
        w == Wrap(Routed(h, method, path), cors)
    IN [mount |-> h,
        gate |-> SubSeq(mw, 1, GateRan(mw, authOK, accessOK)),
        allowed |-> ok,
        routed |-> ok /\ h \notin {"static", "redirect"},
        handler |-> IF ok THEN w.handler ELSE "denied",
        cors |-> ok /\ w.cors]

---------------------------------------------------------------------------
(* The requests of the model *)

\* Texts a {name:.*} variable is given: a plain one and one with a slash.
Names == {<<"abc123">>, <<"lib", "img">>}

RECURSIVE Instantiate(_, _)
Instantiate(pat, name) ==
    IF pat = <<>> THEN <<>>
    ELSE (IF Head(pat) = "*" THEN name ELSE <<Head(pat)>>)
             \o Instantiate(Tail(pat), name)

\* The paths of the route table, bare and under every version prefix.
BarePaths == { Instantiate(r[2], n) : r \in SwarmRoutes, n \in Names }

VersionedPaths == { <<v>> \o p : v \in VersionSegs, p \in BarePaths }

OtherPaths ==
    { <<"">>, <<"api">>, <<"api", "exec">>, <<"api", "accounts">>,
      <<"api", "roles", "admin">>, <<"auth", "login">>,
      <<"hub", "webhook", "k1">>, <<"account", "changepassword">>,
      <<"v1.17", "">>, <<"index.html">> }

ReqPaths == (BarePaths \ {<<>>}) \cup VersionedPaths \cup OtherPaths

Methods == {"GET", "POST", "DELETE", "OPTIONS", "PUT"}

---------------------------------------------------------------------------
(* Dispatching: one request through globalMux *)

\* The dispatcher is looked at one request at a time: a request is served
\* and its response leaves before the next one is taken.
Serve(method, path, authOK, accessOK) ==
    /\ served = <<>>
    /\ served' = << [method |-> method, path |-> path,
                     authOK |-> authOK, accessOK |-> accessOK,
                     d |-> Dispatch(method, path, authOK, accessOK, enableCors)] >>
    /\ UNCHANGED <<cfgVars, fwdVars, loginVars, execVars>>

InitRoute ==
    /\ enableCors \in BOOLEAN
    /\ tlsConfig = FALSE
    /\ urlScheme = "http"
    /\ hostParses = TRUE
    /\ served = <<>>
    /\ err = "nil"
    /\ errWriter = 0
    /\ fwd = <<>>
    /\ login = LoginIdle
    /\ halfClose = FALSE
    /\ NoSession

Respond ==
    /\ served # <<>>
    /\ served' = <<>>
    /\ UNCHANGED <<cfgVars, fwdVars, loginVars, execVars>>

NextRoute ==
    \/ \E method \in Methods, path \in ReqPaths, authOK \in BOOLEAN, accessOK \in BOOLEAN :
          Serve(method, path, authOK, accessOK)
    \/ Respond

RouteSpec == InitRoute /\ [][NextRoute]_vars

---------------------------------------------------------------------------
(* swarmRedirect: the reverse-proxy handler *)

\* Bound: the requests that may be inside swarmRedirect at once.
MaxInFlight == 2

Goroutines == 1..MaxInFlight

StatusInternalServerError == 500

SwarmHost == "swarm:2375"

\* dUrl: "http://" or, with a TLS configuration, "https://", then URL.Host.
DUrl == [scheme |-> IF tlsConfig THEN "https" ELSE "http", host |-> SwarmHost]

\* A nil *url.URL, as a URL without scheme, host and path.
NilURL == [scheme |-> "", host |-> "", path |-> <<>>]

\* url.ParseRequestURI(dUrl): the URL (it has no path) or an error.
ParseRequestURI(u) ==
    IF hostParses
    THEN [url |-> [scheme |-> u.scheme, host |-> u.host, path |-> <<>>], err |-> "nil"]
    ELSE [url |-> NilURL, err |-> "parse error"]

\* fwd: forward.New(), or forward.New(RoundTripper(TLS transport)).
FwdTransport == IF tlsConfig THEN "tls" ELSE "plain"

\* The inbound requests of the forwarder's model: method, request URI, body.
FwdRequests ==
    { [method |-> "POST", uri |-> <<"containers", "abc123", "start">>, body |-> ""],
      [method |-> "POST", uri |-> <<"v1.17", "containers", "create">>, body |-> "{}"],
      [method |-> "GET", uri |-> <<"v1.18", "images", "lib", "img", "json">>, body |-> ""],
      [method |-> "GET", uri |-> <<"info">>, body |-> ""],
      [method |-> "DELETE", uri |-> <<"v1.19", "containers", "abc123">>, body |-> ""] }

\* What the cluster manager may answer.
UpstreamResponses ==
    { [status |-> 200, body |-> "ok"], [status |-> 404, body |-> "no such id"] }

\* The statuses oxy's error handler answers when the round trip fails: bad
\* gateway, gateway timeout, or internal server error for any other error.
RoundTripErrorStatuses == {500, 502, 504}

Idle == [pc |-> "idle"]

\* The request enters swarmRedirect: it was dispatched to it by globalMux.
\* req is the server's *http.Request, its URL parsed from the request URI;
\* inbound keeps what the caller sent.
Arrive(g, r, authOK, accessOK) ==
    LET d == Dispatch(r.method, r.uri, authOK, accessOK, enableCors)
    IN /\ fwd[g].pc = "idle"
       /\ d.handler = "swarmRedirect"
       /\ fwd' = [fwd EXCEPT ![g] =
                    [pc |-> "rewrite", inbound |-> r, cors |-> d.cors,
                     req |-> [method |-> r.method, requestURI |-> r.uri,
                              body |-> r.body,
                              url |-> [scheme |-> "", host |-> "", path |-> r.uri]],
                     relayed |-> <<>>, upstream |-> <<>>, resp |-> <<>>]]
       /\ UNCHANGED <<cfgVars, routeVars, err, errWriter, loginVars, execVars>>

\* Mutant: req.URL is left as the server parsed it.
SetURLDropped(req, u) == req

\* The assignment to req.URL.
SetURL(req, u) == [req EXCEPT !.url = u]

\* req.URL, err = url.ParseRequestURI(dUrl)
Rewrite(g) ==
    /\ fwd[g].pc = "rewrite"
    /\ LET p == ParseRequestURI(DUrl)
       IN /\ err' = p.err
          /\ errWriter' = g
          /\ fwd' = [fwd EXCEPT ![g].pc = "check", ![g].req = SetURL(@, p.url)]
    /\ UNCHANGED <<cfgVars, routeVars, loginVars, execVars>>

\* Mutant: the error of the parse is not looked at.
ParseFailedIgnored(e) == FALSE

\* err != nil
ParseFailed(e) == e # "nil"

\* if err != nil { http.Error(w, err.Error(), 500); return }
CheckErr(g) ==
    /\ fwd[g].pc = "check"
    /\ fwd' = [fwd EXCEPT ![g] =
                 IF ParseFailed(err)
                 THEN [@ EXCEPT !.pc = "done",
                                !.resp = <<[status |-> StatusInternalServerError,
                                            body |-> err]>>]
                 ELSE [@ EXCEPT !.pc = "forward"]]
    /\ UNCHANGED <<cfgVars, routeVars, err, errWriter, loginVars, execVars>>

\* The request oxy's forwarder sends (forward.copyRequest): a copy of the
\* request with URL.Opaque set to the inbound RequestURI, which becomes the
\* request target, and with the scheme and host of req.URL.
CopyRequest(q) ==
    [method |-> q.method, target |-> q.requestURI, body |-> q.body,
     scheme |-> q.url.scheme, host |-> q.url.host, transport |-> FwdTransport]

\* fwd.ServeHTTP(w, req): the round trip fails and the error handler
\* answers, or the upstream's response is written to the caller.
Forward(g) ==
    /\ fwd[g].pc = "forward"
    /\ \/ \E st \in RoundTripErrorStatuses :
            fwd' = [fwd EXCEPT ![g].pc = "done",
                               ![g].resp = <<[status |-> st, body |-> "error"]>>]
       \/ \E u \in UpstreamResponses :
            fwd' = [fwd EXCEPT ![g].pc = "done",
                               ![g].relayed = <<CopyRequest(fwd[g].req)>>,
                               ![g].upstream = <<u>>,
                               ![g].resp = <<u>>]
    /\ UNCHANGED <<cfgVars, routeVars, err, errWriter, loginVars, execVars>>

\* The handler returns.
Return(g) ==
    /\ fwd[g].pc = "done"
    /\ fwd' = [fwd EXCEPT ![g] = Idle]
    /\ UNCHANGED <<cfgVars, routeVars, err, errWriter, loginVars, execVars>>

InitForward ==
    /\ enableCors \in BOOLEAN
    /\ tlsConfig \in BOOLEAN
    /\ urlScheme = IF tlsConfig THEN "https" ELSE "http"
    /\ hostParses \in BOOLEAN
    /\ served = <<>>
    /\ err = "nil"
    /\ errWriter = 0
    /\ fwd = [g \in Goroutines |-> Idle]
    /\ login = LoginIdle
    /\ halfClose = FALSE
    /\ NoSession

NextForward ==
    \E g \in Goroutines :
        \/ \E r \in FwdRequests, authOK \in BOOLEAN, accessOK \in BOOLEAN :
              Arrive(g, r, authOK, accessOK)
        \/ Rewrite(g)
        \/ CheckErr(g)
        \/ Forward(g)
        \/ Return(g)

ForwardSpec == InitForward /\ [][NextForward]_vars

---------------------------------------------------------------------------
(* execContainer and hijack: the terminal bridge *)

\* Bound: the bytes each side writes in one session.
MaxBytes == 2

reqVars == <<query, createReq, startReq>>
mainVars == <<pc, execId, createFailed, hijackErr, hijacked, handshake,
              keepAlive, conns, resizeSent, resizes, attempts, reqVars>>
sockVars == <<sock, closes>>
outVars == <<outPc, outBuf, toClient, copyErr>>
inVars == <<inPc, inBuf, toRemote>>
envVars == <<ws, remote, produced, sent>>
otherVars == <<cfgVars, routeVars, fwdVars, loginVars, halfClose>>

\* The arguments of the one call of hijack, a.hijack(host, "POST", path, true,
\* ws, ws, ws, nil, nil): in, stdout and stderr are the websocket.
StdoutSink == TRUE

InSource == TRUE

SetRawTerminal == TRUE

\* http.Post goes through http.DefaultClient: plain TCP for an http URL, TLS
\* with the default configuration for an https URL.
PostTransport == IF urlScheme = "https" THEN "tls-default" ELSE "plain"

\* net.Dial or tls.Dial(tlsConfig) in hijack.
DialTransport == IF tlsConfig THEN "tls-configured" ELSE "plain"

\* dial.(*net.TCPConn): a tls.Conn is not one.
IsTCPConn == ~tlsConfig

\* rwc.(interface{ CloseWrite() error })
HasCloseWrite == IsTCPConn \/ halfClose

\* What the cluster manager may answer to POST /containers/<id>/exec.
CreateResponses ==
    { [status |-> 201, body |-> "json"], [status |-> 201, body |-> "text"],
      [status |-> 404, body |-> "text"], [status |-> 500, body |-> "text"] }

\* json.Unmarshal(data, &info); info.Id: the zero value when data is no JSON.
Unmarshal(body) == IF body = "json" THEN "e1" ELSE ""

\* A query parameter's text is a sequence of characters.  The cmd of the
\* running example, "sh,-c,echo hi":
ExampleCmd == <<"s", "h", ",", "-", "c", ",", "e", "c", "h", "o", " ", "h", "i">>

\* Bound: the length of the other cmd parameters.
MaxCmdLen == 3

\* The cmd parameters of the model: the example and every text of letters
\* and commas up to the bound, the empty one (no cmd parameter) included.
CmdParams ==
    {ExampleCmd} \cup UNION { [1..n -> {"a", ","}] : n \in 0..MaxCmdLen }

\* The id parameters of the model: a container id and a container name.
IdParams == {"abc123", "web_1"}

Queries == [id : IdParams, cmd : CmdParams]

\* The query of the sessions whose streams are explored.
SessionQuery == [id |-> "abc123", cmd |-> ExampleCmd]

\* strings.Index(s, sep) for a one-character sep, counted from 1; 0: none.
Index(s, sep) ==
    IF \E j \in 1..Len(s) : s[j] = sep
    THEN CHOOSE j \in 1..Len(s) :
            s[j] = sep /\ \A k \in 1..(j - 1) : s[k] # sep
    ELSE 0

RECURSIVE Split(_, _)

\* Mutant: empty fields are dropped, as strings.FieldsFunc does.
SplitFields(s, sep) ==
    LET i == Index(s, sep)
        head == IF i = 0 THEN s ELSE SubSeq(s, 1, i - 1)
        rest == IF i = 0 THEN <<>> ELSE Split(SubSeq(s, i + 1, Len(s)), sep)
    IN IF head = <<>> THEN rest ELSE <<head>> \o rest

\* strings.Split(s, sep): the texts between the separators, empty ones
\* included; a text without separator, the empty text too, is one field.
Split(s, sep) ==
    LET i == Index(s, sep)
    IN IF i = 0
       THEN <<s>>
       ELSE <<SubSeq(s, 1, i - 1)>> \o Split(SubSeq(s, i + 1, Len(s)), sep)

\* http.Post(host + "/containers/" + id + "/exec") with the marshalled
\* ExecConfig as its body.
CreateRequest(q) ==
    [method |-> "POST", scheme |-> urlScheme, host |-> SwarmHost,
     path |-> <<"containers", q.id, "exec">>,
     body |-> [AttachStdin |-> TRUE, AttachStdout |-> TRUE, AttachStderr |-> TRUE,
               Tty |-> TRUE, Cmd |-> Split(q.cmd, ",")]]

\* The request hijack builds for "/exec/" + info.Id + "/start".
StartRequest(id) ==
    [method |-> "POST", host |-> SwarmHost, path |-> <<"exec", id, "start">>,
     upgrade |-> "tcp", body |-> [Tty |-> TRUE, Detach |-> FALSE]]

\* The websocket handler is entered: /api/exec went through globalMux, the
\* gate and apiRouter.  A session that returned gives way to the next.
Accept(authOK, accessOK, q) ==
    /\ pc \in {"idle", "returned"}
    /\ Dispatch("GET", <<"api", "exec">>, authOK, accessOK, enableCors).handler
           = "execContainer"
    /\ pc' = "create"
    /\ execId' = "" /\ createFailed' = FALSE /\ hijackErr' = "nil"
    /\ hijacked' = FALSE /\ handshake' = "none"
    /\ sock' = "none" /\ closes' = 0 /\ keepAlive' = FALSE
    /\ conns' = {} /\ resizeSent' = FALSE /\ resizes' = 0
    /\ attempts' = [create |-> 0, dial |-> 0, start |-> 0]
    /\ query' = q
    /\ createReq' = <<>> /\ startReq' = <<>>
    /\ outPc' = "none" /\ outBuf' = <<>> /\ inPc' = "none" /\ inBuf' = <<>>
    /\ copyErr' = "nil"
    /\ ws' = "open" /\ remote' = "running"
    /\ produced' = 0 /\ toClient' = <<>> /\ sent' = 0 /\ toRemote' = <<>>
    /\ UNCHANGED otherVars

\* http.Post(".../containers/<id>/exec"), ioutil.ReadAll, json.Unmarshal:
\* only an error of the post or of the read ends the handler.
Create ==
    /\ pc = "create"
    /\ conns' = conns \cup {[purpose |-> "create", transport |-> PostTransport]}
    /\ attempts' = [attempts EXCEPT !.create = @ + 1]
    /\ \/ /\ pc' = "returned"
          /\ createFailed' = TRUE
          /\ ws' = "closed"
          /\ UNCHANGED execId
       \/ \E r \in CreateResponses :
            /\ execId' = Unmarshal(r.body)
            /\ createFailed' = (r.status \notin {200, 201} \/ Unmarshal(r.body) = "")
            /\ pc' = "dial"
            /\ UNCHANGED ws
    /\ createReq' = <<CreateRequest(query)>>
    /\ UNCHANGED <<hijackErr, hijacked, handshake, keepAlive, resizeSent,
                   resizes, query, startReq, remote, produced, sent>>
    /\ UNCHANGED <<sockVars, outVars, inVars, otherVars>>

\* Mutant: a failed dial is tried again.
DialAgain == "dial"

\* if dialErr != nil { return dialErr }: where a failed dial leaves hijack.
OnDialError == "hijackDone"

\* hijack, up to the dial: a failed dial returns dialErr.
Dial ==
    /\ pc = "dial"
    /\ attempts' = [attempts EXCEPT !.dial = @ + 1]
    /\ \/ /\ hijackErr' = "dial error"
          /\ pc' = OnDialError
          /\ UNCHANGED <<sock, conns>>
       \/ /\ sock' = "open"
          /\ conns' = conns \cup {[purpose |-> "hijack", transport |-> DialTransport]}
          /\ pc' = "keepalive"
          /\ UNCHANGED hijackErr
    /\ UNCHANGED <<execId, createFailed, hijacked, handshake, keepAlive, resizeSent,
                   resizes, closes, reqVars>>
    /\ UNCHANGED <<outVars, inVars, envVars, otherVars>>

\* if tcpConn, ok := dial.(*net.TCPConn); ok { SetKeepAlive; SetKeepAlivePeriod }
SetKeepAlive ==
    /\ pc = "keepalive"
    /\ keepAlive' = IsTCPConn
    /\ pc' = "do"
    /\ UNCHANGED <<execId, createFailed, hijackErr, hijacked, handshake, conns,
                   resizeSent, resizes, attempts, reqVars>>
    /\ UNCHANGED <<sockVars, outVars, inVars, envVars, otherVars>>

\* clientconn.Do(req): the start request is written and the answer read; its
\* result and its error are dropped.  upgraded: the stream follows; refused:
\* an HTTP error answer; error: the connection broke.
Do ==
    /\ pc = "do"
    /\ \E h \in {"upgraded", "refused", "error"} :
         /\ handshake' = h
         /\ remote' = IF h = "error" THEN "eof" ELSE remote
    /\ attempts' = [attempts EXCEPT !.start = @ + 1]
    /\ pc' = "hijack"
    /\ startReq' = <<StartRequest(execId)>>
    /\ UNCHANGED <<execId, createFailed, hijackErr, hijacked, keepAlive, conns,
                   resizeSent, resizes, query, createReq, ws, produced, sent>>
    /\ UNCHANGED <<sockVars, outVars, inVars, otherVars>>

\* Mutant: the copying goroutine sends its result on receiveStdout.
SendsCopyResult == TRUE

\* What is sent on receiveStdout: the channel is declared and never made, and
\* the copying goroutine drops its result.
SendsOnReceiveStdout == FALSE

\* The deferred rwc.Close() (clientconn.Close() finds the connection gone).
DeferredClose(s) == IF s = "closed" THEN s ELSE "closed"

\* clientconn.Hijack() and the two go statements; then the receive from
\* receiveStdout, which blocks when a sink was given.
Hijack ==
    /\ pc = "hijack"
    /\ hijacked' = TRUE
    /\ outPc' = IF StdoutSink THEN "read" ELSE "none"
    /\ inPc' = "read"
    /\ IF StdoutSink
       THEN pc' = "blocked" /\ UNCHANGED sockVars
       ELSE pc' = "hijackDone" /\ sock' = DeferredClose(sock) /\ closes' = closes + 1
    /\ UNCHANGED <<execId, createFailed, hijackErr, handshake, keepAlive, conns,
                   resizeSent, resizes, attempts, reqVars, outBuf, toClient,
                   copyErr, inBuf, toRemote>>
    /\ UNCHANGED <<envVars, otherVars>>

\* Mutant: the error hijack returned is not looked at.
HijackFailedIgnored(e) == FALSE

\* if err := a.hijack(...); err != nil
HijackFailed(e) == e # "nil"

\* Mutant: the resize travels in the duplex stream.
PostResizeInBand(stream) == Append(stream, 0)

\* What a resize does to the bytes written to the raw socket: the http.Post
\* of execContainer and the forwarder's round trip each use a connection of
\* their own, so the stream stays as it was.
PostResize(stream) == stream

\* execContainer after hijack returned: an error ends the handler, else the
\* resize request is posted.
AfterHijack ==
    /\ pc = "hijackDone"
    /\ IF HijackFailed(hijackErr)
       THEN UNCHANGED <<resizeSent, conns, toRemote>>
       ELSE /\ resizeSent' = TRUE
            /\ conns' = conns \cup {[purpose |-> "resize", transport |-> PostTransport]}
            /\ toRemote' = PostResize(toRemote)
    /\ pc' = "returned"
    /\ ws' = "closed"
    /\ UNCHANGED <<execId, createFailed, hijackErr, hijacked, handshake, keepAlive,
                   resizes, attempts, reqVars, remote, produced, sent>>
    /\ UNCHANGED <<sockVars, outVars, inPc, inBuf, otherVars>>

\* Bound: the resize requests a client sends for one session.
MaxResizes == 2

\* A client's POST /exec/<id>/resize for the session, handled by
\* swarmRedirect in a goroutine of its own: the target is rewritten (err is
\* assigned) and the request relayed to the cluster manager.
ForwardResize(authOK, accessOK) ==
    LET d == Dispatch("POST", <<"exec", execId, "resize">>, authOK, accessOK,
                      enableCors)
        p == ParseRequestURI(DUrl)
    IN /\ execId # ""
       /\ resizes < MaxResizes
       /\ d.handler = "swarmRedirect"
       /\ err' = p.err
       /\ errWriter' = 1
       /\ ~ParseFailed(p.err)
       /\ resizes' = resizes + 1
       /\ toRemote' = PostResize(toRemote)
       /\ UNCHANGED <<pc, execId, createFailed, hijackErr, hijacked, handshake,
                      keepAlive, conns, resizeSent, attempts, reqVars, fwd,
                      halfClose>>
       /\ UNCHANGED <<sockVars, outVars, inPc, inBuf, envVars, cfgVars, routeVars,
                      loginVars>>

\* Mutant: every Read starts again at the head of the stream.
ReadRewound(off, k) == [i \in 1..k |-> i]

\* One Read of io.Copy on a stream of which off bytes were taken: the next k
\* bytes, in the stream's order.
Read(off, k) == [i \in 1..k |-> off + i]

\* io.Copy(stdout, br), one Read: some of the bytes at hand; at the end of
\* the stream io.EOF (a nil result) or the read's error.  A half-closed
\* socket still reads; a closed one fails every read.
OutRead ==
    /\ outPc = "read"
    /\ SetRawTerminal
    /\ LET pending == produced - Len(toClient)
       IN \/ /\ sock # "closed"
             /\ pending > 0
             /\ \E k \in 1..pending :
                  outBuf' = Read(Len(toClient), k)
             /\ outPc' = "write"
             /\ UNCHANGED copyErr
          \/ /\ sock = "closed" \/ (pending = 0 /\ remote # "running")
             /\ copyErr' = IF sock = "closed" \/ remote = "reset"
                           THEN "read error" ELSE "nil"
             /\ outPc' = "return"
             /\ UNCHANGED outBuf
    /\ UNCHANGED <<toClient, mainVars, sockVars, inVars, envVars, otherVars>>

\* io.Copy(stdout, br), one Write to the websocket.
OutWrite ==
    /\ outPc = "write"
    /\ IF ws = "open"
       THEN /\ toClient' = toClient \o outBuf
            /\ outPc' = "read"
            /\ UNCHANGED copyErr
       ELSE /\ copyErr' = "write error"
            /\ outPc' = "return"
            /\ UNCHANGED toClient
    /\ outBuf' = <<>>
    /\ UNCHANGED <<mainVars, sockVars, inVars, envVars, otherVars>>

\* return err in the copying goroutine.  Were the result sent on
\* receiveStdout, hijack would receive it: return the error, or start the
\* goroutine printing br and return nil, closing the socket on the way out.
OutReturn ==
    /\ outPc = "return"
    /\ outPc' = "done"
    /\ IF SendsOnReceiveStdout /\ pc = "blocked"
       THEN /\ pc' = "hijackDone"
            /\ hijackErr' = copyErr
            /\ sock' = DeferredClose(sock)
            /\ closes' = closes + 1
       ELSE UNCHANGED <<pc, hijackErr, sock, closes>>
    /\ UNCHANGED <<execId, createFailed, hijacked, handshake, keepAlive, conns,
                   resizeSent, resizes, attempts, reqVars, outBuf, toClient,
                   copyErr>>
    /\ UNCHANGED <<inVars, envVars, otherVars>>

\* Mutant: the copy to the remote runs once the copy to the client is over.
CopiesInSequence == FALSE

\* Each copy runs in a goroutine of its own (the two go statements): the
\* copy to the remote does not wait for the copy to the client.
CopiesConcurrent == TRUE

\* io.Copy(rwc, in), one Read from the websocket.
InRead ==
    /\ inPc = "read"
    /\ InSource
    /\ CopiesConcurrent \/ outPc = "done"
    /\ LET pending == sent - Len(toRemote)
       IN \/ /\ pending > 0
             /\ \E k \in 1..pending :
                  inBuf' = Read(Len(toRemote), k)
             /\ inPc' = "write"
          \/ /\ pending = 0
             /\ ws = "closed"
             /\ inPc' = "closeWrite"
             /\ UNCHANGED inBuf
    /\ UNCHANGED <<toRemote, mainVars, sockVars, outVars, envVars, otherVars>>

\* io.Copy(rwc, in), one Write to the raw socket.
InWrite ==
    /\ inPc = "write"
    /\ IF sock = "open" /\ remote = "running"
       THEN toRemote' = toRemote \o inBuf /\ inPc' = "read"
       ELSE UNCHANGED toRemote /\ inPc' = "closeWrite"
    /\ inBuf' = <<>>
    /\ UNCHANGED <<mainVars, sockVars, outVars, envVars, otherVars>>

\* Mutant: the socket is closed, not half-closed.
CloseWhole(s) == IF HasCloseWrite /\ s = "open" THEN "closed" ELSE s

\* conn.CloseWrite() when rwc has the method.
CloseWrite(s) == IF HasCloseWrite /\ s = "open" THEN "halfClosed" ELSE s

InCloseWrite ==
    /\ inPc = "closeWrite"
    /\ sock' = CloseWrite(sock)
    /\ inPc' = "done"
    /\ UNCHANGED <<closes, inBuf, toRemote, mainVars, outVars, envVars, otherVars>>

(* The two ends *)

RemoteWrite ==
    /\ handshake \in {"upgraded", "refused"}
    /\ remote = "running"
    /\ produced < MaxBytes
    /\ produced' = produced + 1
    /\ UNCHANGED <<ws, remote, sent, mainVars, sockVars, outVars, inVars, otherVars>>

RemoteEnd ==
    /\ handshake # "none"
    /\ remote = "running"
    /\ remote' \in {"eof", "reset"}
    /\ UNCHANGED <<ws, produced, sent, mainVars, sockVars, outVars, inVars, otherVars>>

ClientWrite ==
    /\ pc \notin {"idle", "returned"}
    /\ ws = "open"
    /\ sent < MaxBytes
    /\ sent' = sent + 1
    /\ UNCHANGED <<ws, remote, produced, mainVars, sockVars, outVars, inVars, otherVars>>

ClientClose ==
    /\ pc \notin {"idle", "returned"}
    /\ ws = "open"
    /\ ws' = "closed"
    /\ UNCHANGED <<remote, produced, sent, mainVars, sockVars, outVars, inVars, otherVars>>

Init ==
    /\ enableCors = FALSE
    /\ tlsConfig \in BOOLEAN
    /\ urlScheme = IF tlsConfig THEN "https" ELSE "http"
    /\ hostParses = TRUE
    /\ served = <<>>
    /\ err = "nil"
    /\ errWriter = 0
    /\ fwd = <<>>
    /\ login = LoginIdle
    /\ halfClose \in BOOLEAN
    /\ NoSession

\* The steps of the program's goroutines, the session's start apart.
ProgramStep ==
    \/ Create \/ Dial \/ SetKeepAlive \/ Do \/ Hijack \/ AfterHijack
    \/ OutRead \/ OutWrite \/ OutReturn
    \/ InRead \/ InWrite \/ InCloseWrite

Environment ==
    \/ RemoteWrite \/ RemoteEnd \/ ClientWrite \/ ClientClose

Next ==
    \/ \E authOK \in BOOLEAN, accessOK \in BOOLEAN :
          Accept(authOK, accessOK, SessionQuery)
    \/ \E authOK \in BOOLEAN, accessOK \in BOOLEAN : ForwardResize(authOK, accessOK)
    \/ ProgramStep
    \/ Environment

Spec == Init /\ [][Next]_vars

\* The Go scheduler runs every goroutine that can run: a copy goroutine whose
\* Read or Write can complete does complete it.
FairSpec ==
    /\ Init /\ [][Next]_vars
    /\ WF_vars(OutRead) /\ WF_vars(OutWrite)
    /\ WF_vars(InRead) /\ WF_vars(InWrite)

\* The goroutine of execContainer alone, for every query of the model.
NextBridge ==
    \/ \E authOK \in BOOLEAN, accessOK \in BOOLEAN, q \in Queries :
          Accept(authOK, accessOK, q)
    \/ Create \/ Dial \/ SetKeepAlive \/ Do \/ Hijack \/ AfterHijack

BridgeSpec == Init /\ [][NextBridge]_vars

---------------------------------------------------------------------------
(* login *)

StatusForbidden == 403

\* The bodies posted to /auth/login: text that is no JSON, the JSON null
\* (Decode leaves creds nil), and credentials.
LoginBodies ==
    [kind : {"not json", "null"}, username : {""}, password : {""}]
        \cup [kind : {"creds"}, username : {"admin", "eve"},
                password : {"secret", "guess"}]

\* POST /auth/login reaches Api.login through globalMux and loginRouter.
LoginArrive(body, authOK, accessOK) ==
    /\ login.pc = "idle"
    /\ Dispatch("POST", <<"auth", "login">>, authOK, accessOK, enableCors).handler
           = "login"
    /\ login' = [LoginIdle EXCEPT !.pc = "decode", !.body = <<body>>]
    /\ UNCHANGED <<cfgVars, routeVars, fwdVars, execVars>>

\* json.NewDecoder(r.Body).Decode(&creds): an error answers 500.  With a nil
\* creds the next statement dereferences it: the handler panics and nothing
\* is answered.
LoginDecode ==
    /\ login.pc = "decode"
    /\ login' =
         LET b == login.body[1] IN
         IF b.kind = "not json"
         THEN [login EXCEPT !.pc = "done",
                            !.resp = <<[status |-> StatusInternalServerError,
                                        token |-> <<>>]>>]
         ELSE IF b.kind = "null"
         THEN [login EXCEPT !.pc = "done"]
         ELSE [login EXCEPT !.pc = "authenticate",
                            !.creds = <<[username |-> b.username,
                                         password |-> b.password]>>]
    /\ UNCHANGED <<cfgVars, routeVars, fwdVars, execVars>>

\* Mutant: a rejected login goes on to the token.
DeniedNever(ok) == FALSE

\* !a.manager.Authenticate(creds.Username, creds.Password)
Denied(ok) == ~ok

\* The manager's answer is either; a denial answers 403 and returns.
LoginAuthenticate ==
    /\ login.pc = "authenticate"
    /\ \E ok \in BOOLEAN :
         login' =
           LET c == login.creds[1]
               a == <<[username |-> c.username, password |-> c.password,
                       ok |-> ok]>>
           IN IF Denied(ok)
              THEN [login EXCEPT !.pc = "done", !.auth = a,
                                 !.resp = <<[status |-> StatusForbidden,
                                             token |-> <<>>]>>]
              ELSE [login EXCEPT !.pc = "token", !.auth = a]
    /\ UNCHANGED <<cfgVars, routeVars, fwdVars, execVars>>

\* a.manager.NewAuthToken(creds.Username, r.UserAgent()), then the encoding
\* of the token into the response; an error of either answers 500.
LoginToken ==
    /\ login.pc = "token"
    /\ \E outcome \in {"token error", "encode error", "ok"} :
         login' =
           [login EXCEPT
              !.pc = "done",
              !.tokenCalls = @ + 1,
              !.resp = IF outcome = "ok"
                       THEN <<[status |-> 200,
                               token |-> <<login.creds[1].username>>]>>
                       ELSE <<[status |-> StatusInternalServerError,
                               token |-> <<>>]>>]
    /\ UNCHANGED <<cfgVars, routeVars, fwdVars, execVars>>

\* The handler returns.
LoginReturn ==
    /\ login.pc = "done"
    /\ login' = LoginIdle
    /\ UNCHANGED <<cfgVars, routeVars, fwdVars, execVars>>

InitLogin ==
    /\ enableCors \in BOOLEAN
    /\ tlsConfig \in BOOLEAN
    /\ urlScheme = IF tlsConfig THEN "https" ELSE "http"
    /\ hostParses \in BOOLEAN
    /\ served = <<>>
    /\ err = "nil"
    /\ errWriter = 0
    /\ fwd = <<>>
    /\ login = LoginIdle
    /\ halfClose = FALSE
    /\ NoSession

NextLogin ==
    \/ \E body \in LoginBodies, authOK \in BOOLEAN, accessOK \in BOOLEAN :
          LoginArrive(body, authOK, accessOK)
    \/ LoginDecode
    \/ LoginAuthenticate
    \/ LoginToken
    \/ LoginReturn

LoginSpec == InitLogin /\ [][NextLogin]_vars

---------------------------------------------------------------------------
(* Properties *)

\* Whether a request addresses an entry of the swarm route table, by its bare
\* path or by a version-prefixed one.
OnForwardedRoute(method, path) ==
    \E r \in SwarmRoutes :
        /\ r[1] = method
        /\ MatchPattern(r[2], path) \/ MatchVersioned(r[2], path)

\* C1: once hijacked, either side ending leads to teardown: the session never
\* comes to rest, with the client closed or the remote ended, while the raw
\* socket is still open or the handler has not returned.
C1_EitherEndTearsDown ==
    (hijacked /\ (ws = "closed" \/ remote # "running") /\ ~ENABLED Next)
        => (sock = "closed" /\ pc = "returned")

\* C2: a raw socket that hijack dialed is closed exactly once: never twice,
\* and once by the time the session has come to rest.
C2_ClosedExactlyOnce ==
    /\ closes <= 1
    /\ (sock # "none" /\ ~ENABLED Next) => closes = 1

\* C3: a session whose create step failed (error status, or no session id in
\* the body) does not call hijack, dials no socket and is never hijacked.
C3_FailedCreateNeverHijacks ==
    createFailed => (pc = "returned" /\ sock = "none" /\ ~hijacked)

\* C4: the initial resize is sent after the session is hijacked and before any
\* remote output is written to the client.
C4_ResizeBeforeOutput ==
    /\ resizeSent => hijacked
    /\ toClient # <<>> => resizeSent

\* C5: for every route entry and every version prefix, the bare path and the
\* prefixed path are dispatched alike: through the gate, to the forwarder.
C5_AliasDispatchedAlike ==
    \A i \in 1..Len(served) :
        LET s == served[i] IN
        \A r \in SwarmRoutes, n \in Names, v \in VersionSegs :
            (/\ s.authOK /\ s.accessOK
             /\ s.method = r[1] /\ r[2] # <<>> /\ s.path = Instantiate(r[2], n)) =>
                LET alias == Dispatch(s.method, <<v>> \o s.path, s.authOK,
                                      s.accessOK, enableCors)
                IN /\ alias = s.d
                   /\ s.d.gate = <<"auth", "access">>
                   /\ s.d.handler = "swarmRedirect"

\* C6: the forwarder and the bridge run only for requests both middlewares
\* allowed; a denied request consults no router and runs neither.
C6_GateBeforeDispatch ==
    \A i \in 1..Len(served) :
        LET s == served[i] IN
        /\ s.d.handler \in {"swarmRedirect", "execContainer"} =>
               (s.authOK /\ s.accessOK /\ s.d.gate = <<"auth", "access">>)
        /\ (s.d.mount \in {"swarmAuthRouter", "apiAuthRouter"}
                /\ ~(s.authOK /\ s.accessOK)) =>
               (~s.d.routed /\ s.d.handler = "denied")

\* A request to a forwarded route is denied by the access middleware.
C6_Witness ==
    \E i \in 1..Len(served) :
        /\ OnForwardedRoute(served[i].method, served[i].path)
        /\ served[i].d.mount = "swarmAuthRouter"
        /\ served[i].authOK /\ ~served[i].accessOK
        /\ served[i].d.handler = "denied"

\* C7: with a TLS configuration every outbound connection of a session uses
\* it, and without one every connection is plain.
C7_OneTransport ==
    \A c \in conns :
        c.transport = (IF tlsConfig THEN "tls-configured" ELSE "plain")

\* C8: the relayed request has the inbound method, path and body, the cluster
\* endpoint's scheme and host, and the caller gets the upstream's response.
C8_RelayedVerbatim ==
    \A g \in DOMAIN fwd :
        (fwd[g].pc = "done" /\ fwd[g].relayed # <<>>) =>
            LET o == fwd[g].relayed[1] IN
            /\ o.method = fwd[g].inbound.method
            /\ o.target = fwd[g].inbound.uri
            /\ o.body = fwd[g].inbound.body
            /\ o.host = SwarmHost
            /\ o.scheme = (IF tlsConfig THEN "https" ELSE "http")
            /\ fwd[g].resp = fwd[g].upstream

\* POST /containers/abc123/start was relayed and answered by the upstream.
C8_Witness ==
    \E g \in DOMAIN fwd :
        /\ fwd[g].pc = "done"
        /\ fwd[g].relayed # <<>>
        /\ fwd[g].inbound.method = "POST"
        /\ fwd[g].inbound.uri = <<"containers", "abc123", "start">>
        /\ fwd[g].resp = <<[status |-> 404, body |-> "no such id"]>>

\* C9: when the target does not parse the caller gets a 500 and nothing is
\* relayed; when the relay fails the caller gets a server-error status and no
\* part of an upstream response.
C9_ForwarderErrors ==
    \A g \in DOMAIN fwd :
        fwd[g].pc = "done" =>
            /\ ~hostParses =>
                   /\ fwd[g].resp[1].status = StatusInternalServerError
                   /\ fwd[g].relayed = <<>>
            /\ fwd[g].relayed = <<>> =>
                   /\ fwd[g].resp[1].status >= 500
                   /\ fwd[g].upstream = <<>>

\* A request met the parse error while another request was in the handler.
C9_Witness ==
    \E g, h \in DOMAIN fwd :
        /\ g # h
        /\ fwd[h].pc = "check"
        /\ fwd[g].pc = "done"
        /\ ~hostParses
        /\ fwd[g].resp[1].status = StatusInternalServerError

\* C10: with CORS enabled every response to a request on a forwarded route,
\* bare or version-prefixed, carries the CORS headers.
C10_CorsOnEveryResponse ==
    \A i \in 1..Len(served) :
        (enableCors /\ OnForwardedRoute(served[i].method, served[i].path))
            => served[i].d.cors

\* C11: within a session the bytes delivered to the client are a prefix of
\* the bytes the remote produced, in the remote's order, however the copy
\* chunks them: none reordered, none duplicated, none before it was produced.
C11_DeliveredIsPrefix ==
    /\ Len(toClient) <= produced
    /\ toClient = [i \in 1..Len(toClient) |-> i]
    /\ outBuf = [i \in 1..Len(outBuf) |-> Len(toClient) + i]
    /\ Len(toClient) + Len(outBuf) <= produced

\* A first chunk was delivered and the copy holds a later one.
C11_Witness ==
    /\ Len(toClient) >= 1
    /\ outPc = "write"
    /\ outBuf # <<>>

\* C12: on every hijacked connection, dialed as plain TCP or as TLS, TCP
\* keep-alive (30 s period) is on before the start request is sent and before
\* either copy starts.
C12_KeepAliveBeforeTraffic ==
    (handshake # "none" \/ outPc # "none" \/ inPc # "none") => keepAlive

\* C13: a resize request for a session leaves the relay untouched: the step
\* that issues it, from the bridge or through the forwarder, changes neither
\* the raw socket nor either copy's position, buffer or delivered bytes.
C13_ResizeLeavesRelay ==
    [][(resizes' > resizes \/ (resizeSent' /\ ~resizeSent))
          => UNCHANGED <<sockVars, outVars, inVars, hijacked, produced, sent>>]_vars

\* Two resize requests were relayed while the session was relaying, and bytes
\* went both ways.
C13_Witness ==
    /\ resizes >= 2
    /\ pc = "blocked"
    /\ sock = "open"
    /\ outPc = "read" /\ inPc = "read"
    /\ toClient # <<>> /\ toRemote # <<>>

\* C14: when the start request's handshake fails (an error answer or a
\* broken connection) hijack aborts before either copy starts: no copy
\* goroutine runs and no byte is relayed in either direction.
C14_FailedHandshakeAborts ==
    handshake \in {"refused", "error"} =>
        /\ outPc = "none" /\ inPc = "none"
        /\ toClient = <<>> /\ toRemote = <<>>

\* C15: hijack is called with a sink; once its dial has succeeded the call
\* never returns, whatever the client and the remote do: it has not returned
\* an error, execContainer has not gone on, and the receive still blocks when
\* both copies are over.
C15_HijackNeverReturns ==
    sock # "none" =>
        /\ pc \in {"keepalive", "do", "hijack", "blocked"}
        /\ hijackErr = "nil"
        /\ ~resizeSent
        /\ closes = 0

\* Both copies are over, the client gone and the remote ended, and hijack is
\* still in its receive.
C15_Witness ==
    /\ pc = "blocked"
    /\ outPc = "done" /\ inPc = "done"
    /\ ws = "closed" /\ remote # "running"

\* C16: when the copy from the remote to the client ends with an error,
\* hijack returns that error to execContainer.
C16_CopyErrorReturned ==
    (outPc = "done" /\ copyErr # "nil") =>
        (hijackErr = copyErr /\ pc \in {"hijackDone", "returned"})

\* C17: requests handled at the same time share no mutable state: the value
\* of err a request is about to test was assigned while handling that same
\* request, never while handling another.
C17_NoSharedMutableState ==
    \A g \in DOMAIN fwd :
        fwd[g].pc = "check" => errWriter = g

\* C18: when the client's input is over and the socket has CloseWrite, the
\* copy to the remote ends with a half-close of the write side and no Close:
\* the socket stays readable, and while the remote runs no read fails.
C18_HalfCloseOnly ==
    /\ (inPc = "done" /\ HasCloseWrite) => (sock = "halfClosed" /\ closes = 0)
    /\ (inPc = "done" /\ remote = "running") => copyErr # "read error"

\* The write side is closed and remote output waits to be read.
C18_Witness ==
    /\ inPc = "done"
    /\ sock = "halfClosed"
    /\ remote = "running"
    /\ outPc = "read"
    /\ produced > Len(toClient)
    /\ ENABLED OutRead

\* C19: a session never retries: it posts the create request, dials and sends
\* the start request at most once each, whether they succeed or fail, and so
\* has at most one hijacked connection.
C19_NoRetry ==
    /\ attempts.create <= 1 /\ attempts.dial <= 1 /\ attempts.start <= 1
    /\ attempts.start <= attempts.dial /\ attempts.dial <= attempts.create
    /\ Cardinality({c \in conns : c.purpose = "hijack"}) <= 1

\* The start request failed, both copies are over, and each step was taken
\* once.
C19_Witness ==
    /\ handshake = "error"
    /\ outPc = "done" /\ inPc = "done"
    /\ attempts = [create |-> 1, dial |-> 1, start |-> 1]

\* C20: when the dial fails hijack returns the dial error at once, with no
\* connection made and no copy started, and execContainer ends the session:
\* no resize is sent and no second dial is made.
C20_DialErrorEndsSession ==
    hijackErr = "dial error" =>
        /\ pc \in {"hijackDone", "returned"}
        /\ sock = "none" /\ ~hijacked /\ handshake = "none"
        /\ outPc = "none" /\ inPc = "none"
        /\ \A c \in conns : c.purpose = "create"
        /\ ~resizeSent
        /\ attempts.dial = 1 /\ attempts.start = 0

\* The dial failed and execContainer has returned.
C20_Witness ==
    /\ hijackErr = "dial error"
    /\ pc = "returned"
    /\ ws = "closed"

\* C21: in a hijacked session each direction makes progress on its own: every
\* byte the remote produced reaches the client unless the client is gone, and
\* every byte the client sent reaches the remote unless the remote has ended,
\* whatever the other direction does, an idle and open one included.
C21_DirectionsIndependent ==
    /\ hijacked ~> (Len(toClient) = produced \/ ws = "closed")
    /\ hijacked ~> (Len(toRemote) = sent \/ remote # "running")

\* All the remote's output is delivered while the client has sent nothing,
\* its input is open and the copy to the remote waits in its Read.
C21_Witness ==
    /\ hijacked
    /\ sent = 0 /\ ws = "open" /\ inPc = "read"
    /\ produced >= 1 /\ Len(toClient) = produced

\* C22: the create request of a session goes to the container of the id
\* parameter with tty and the three attach flags set and with the cmd
\* parameter split at its commas: the fields hold no comma and, joined by
\* commas, give the parameter back ("sh,-c,echo hi" gives sh, -c, echo hi).
\* The start request goes to /exec/<id>/start for the id the create returned.
C22_RequestsAddressed ==
    LET RECURSIVE Join(_)
        Join(f) == IF Len(f) = 1 THEN f[1]
                   ELSE f[1] \o <<",">> \o Join(Tail(f))
    IN /\ createReq # <<>> =>
            LET r == createReq[1] IN
            /\ r.method = "POST"
            /\ r.path = <<"containers", query.id, "exec">>
            /\ r.body.Tty /\ r.body.AttachStdin
            /\ r.body.AttachStdout /\ r.body.AttachStderr
            /\ Len(r.body.Cmd) >= 1
            /\ \A i \in 1..Len(r.body.Cmd) :
                   \A j \in 1..Len(r.body.Cmd[i]) : r.body.Cmd[i][j] # ","
            /\ Join(r.body.Cmd) = query.cmd
            /\ query.cmd = ExampleCmd =>
                   r.body.Cmd = << <<"s", "h">>, <<"-", "c">>,
                                   <<"e", "c", "h", "o", " ", "h", "i">> >>
       /\ startReq # <<>> =>
            /\ createReq # <<>>
            /\ execId = Unmarshal("json") \/ execId = Unmarshal("text")
            /\ startReq[1].method = "POST"
            /\ startReq[1].path = <<"exec", execId, "start">>

\* The session of container web_1 with cmd "a,," has sent its start request
\* for the id the create returned.
C22_Witness ==
    /\ query = [id |-> "web_1", cmd |-> <<"a", ",", ",">>]
    /\ createReq # <<>> /\ createReq[1].body.Cmd = << <<"a">>, <<>>, <<>> >>
    /\ execId = "e1"
    /\ startReq # <<>>

\* C23: login issues a token only after Authenticate, asked about the
\* submitted username and password, returned true; when it returned false
\* the answer is 403 and NewAuthToken is not called for that request.
C23_TokenOnlyAfterAuthenticate ==
    /\ (login.tokenCalls > 0 \/ (login.resp # <<>> /\ login.resp[1].token # <<>>)) =>
          /\ login.auth # <<>>
          /\ login.auth[1].ok
          /\ login.auth[1].username = login.body[1].username
          /\ login.auth[1].password = login.body[1].password
    /\ (login.auth # <<>> /\ ~login.auth[1].ok) =>
          /\ login.pc = "done"
          /\ login.resp = <<[status |-> StatusForbidden, token |-> <<>>]>>
          /\ login.tokenCalls = 0

\* A login with a wrong password was answered 403 without a token call.
C23_Witness ==
    /\ login.pc = "done"
    /\ login.auth = <<[username |-> "admin", password |-> "guess", ok |-> FALSE]>>
    /\ login.resp # <<>> /\ login.resp[1].status = StatusForbidden
    /\ login.tokenCalls = 0

=============================================================================
